---- MODULE Spec2Model ----
(***************************************************************************)
(* nest-mediator: the pipeline-behavior invocation chain                   *)
(* (PipelineBehaviorInvoker) and the dispatch facade (Mediator.execute).   *)
(*                                                                         *)
(* A chain node is identified by its position in `handlers` (nodes are     *)
(* only ever created by addPipe and pushed once, never removed), so a      *)
(* reference to a node is its 1-based index and `null` is 0.               *)
(*                                                                         *)
(* One dispatch is a stack of suspended frames: a behavior's handle() that *)
(* awaits next(), or the terminal bus call on top.  Behaviors and the bus  *)
(* are external code: what they do at each step is a nondeterministic      *)
(* choice.  A behavior awaits each next() before it goes on.               *)
(***************************************************************************)
EXTENDS Integers, Sequences, FiniteSets, TLC

\* ------------------------------------------------------------- bounds
MaxChain == 3      \* longest chain built
MaxCalls == 2      \* dispatches that may be in flight together
MaxDeviations == 1 \* steps per dispatch in which a behavior does anything but
                   \* call next once and return what it gave

\* ------------------------------------------------------------- values
Pipes == {"LoggingBehavior", "ValidationBehavior"}
Kinds == {"Command", "Query", "Other"}
Absent == "undefined"
Options == {Absent, "optA"}
CallIds == 1..MaxCalls

null == 0
NoRequest == [kind |-> "none", id |-> 0]
NoOption == "-"
\* forRoot(options?): called with no argument, or with {pipelineBehaviors}
NoModuleOptions == [present |-> FALSE, pipelineBehaviors |-> <<>>]
ModuleOptions ==
    {NoModuleOptions} \cup
    {[present |-> TRUE, pipelineBehaviors |-> pipes] :
        pipes \in UNION {[1..n -> Pipes] : n \in 0..MaxChain}}
\* the behaviors a configuration names, none when it names none
Configured(options) == IF options.present THEN options.pipelineBehaviors ELSE <<>>

NoOutcome == [ok |-> FALSE, by |-> "none", node |-> 0, req |-> NoRequest]
Undefined == [ok |-> TRUE, by |-> "undefined", node |-> 0, req |-> NoRequest]

VARIABLES
    handlers,   \* PipelineBehaviorInvoker.handlers: Seq of [pipe, next]
    calls,      \* per dispatch: its stack of frames, its events, its outcome
    registered, \* history: the behaviors the configuration named and those
                \* given to addPipe, in the order they were given
    invokedOutside \* the behaviors whose handle() the constructor or addPipe
                \* called, in call order

vars == <<handlers, calls, registered, invokedOutside>>

\* ------------------------------------------------------------- chain
\* IPipelineBehaviorHandler {pipe, next}
Handler(pipe, next) == [pipe |-> pipe, next |-> next]

\* (mutant) a behavior already in the chain is not added again
addPipe_dedup(hs, pipe) ==
    IF \E i \in 1..Len(hs) : hs[i].pipe = pipe THEN hs
    ELSE Append(IF Len(hs) > 0 THEN [hs EXCEPT ![Len(hs)].next = Len(hs) + 1] ELSE hs,
                Handler(pipe, null))

\* (mutant) the new node is pushed, the previous tail is not relinked
addPipe_unlinked(hs, pipe) == Append(hs, Handler(pipe, null))

\* (mutant) every node already in the chain is linked to the new node
addPipe_relinkAll(hs, pipe) ==
    Append([i \in 1..Len(hs) |-> [hs[i] EXCEPT !.next = Len(hs) + 1]],
           Handler(pipe, null))

\* addPipe: new node with next = null; the previous tail is relinked to it;
\* the node is pushed.
addPipe(hs, pipe) ==
    LET handler == Handler(pipe, null)
        linked == IF Len(hs) > 0
                  THEN [hs EXCEPT ![Len(hs)].next = Len(hs) + 1]
                  ELSE hs
    IN  Append(linked, handler)

\* (mutant) addPipe calls the handle() of the behavior it is given
invokedByAddPipe_probe(hs, pipe) == <<pipe>>

\* the handle() calls addPipe makes: its body reads pipe only to store it
invokedByAddPipe(hs, pipe) == <<>>

\* the handle() calls of the constructor: those of its addPipe calls
RECURSIVE invokedByConstructorFrom(_, _, _)
invokedByConstructorFrom(hs, pipes, i) ==
    IF i > Len(pipes) THEN <<>>
    ELSE invokedByAddPipe(hs, pipes[i])
         \o invokedByConstructorFrom(addPipe(hs, pipes[i]), pipes, i + 1)

invokedByConstructor(pipes) == invokedByConstructorFrom(<<>>, pipes, 1)

\* constructor: for (i = 0; i < pipes.length; i++) this.addPipe(pipes[i])
RECURSIVE constructorFrom(_, _, _)
constructorFrom(hs, pipes, i) ==
    IF i > Len(pipes) THEN hs
    ELSE constructorFrom(addPipe(hs, pipes[i]), pipes, i + 1)

constructor(pipes) == constructorFrom(<<>>, pipes, 1)

\* (mutant) with no options given a default behavior is installed
forRoot_defaults(options) ==
    IF options.present THEN constructor(options.pipelineBehaviors)
    ELSE constructor(<<"LoggingBehavior">>)

\* forRoot: pipelineBehaviors = options?.pipelineBehaviors || []; the
\* Invoker is built from these: new PipelineBehaviorInvoker(pipes)
forRoot(options) ==
    LET pipelineBehaviors == IF options.present THEN options.pipelineBehaviors ELSE <<>>
    IN  constructor(pipelineBehaviors)

\* this.handlers[0]: undefined (falsy, as null) on an empty list
FirstHandler(hs) == IF Len(hs) > 0 THEN 1 ELSE null

\* (mutant) the continuation starts over at the head of the chain
NextOf_first(hs, node) == 1

\* (mutant) the continuation goes to the terminal whatever the successor is
NextOf_terminal(hs, node) == null

\* pipeHandler.next, read when the continuation is called
NextOf(hs, node) == hs[node].next

\* ------------------------------------------------------------- dispatch
IdleCall ==
    [status |-> "idle", request |-> NoRequest, options |-> NoOption,
     stack |-> <<>>, log |-> <<>>, outcome |-> NoOutcome,
     termOut |-> NoOutcome, deviations |-> 0, raced |-> FALSE, prior |-> {},
     nexts |-> [i \in 1..MaxChain |-> 0]]

Frame(node, request, commandOrQueryHandler, options) ==
    [node |-> node, pc |-> IF node = null THEN "pending" ELSE "running",
     req |-> request, opt |-> options, term |-> commandOrQueryHandler,
     got |-> NoOutcome]

\* chain: the length of this.handlers when the event happened
Event(ev, node, who, req, opt, out) ==
    [ev |-> ev, node |-> node, who |-> who, req |-> req, opt |-> opt, out |-> out,
     chain |-> Len(handlers)]

\* (mutant) with no node left it returns at once, the terminal not called
invokeNext_noTerminal(call, request, pipeHandler, commandOrQueryHandler, options) ==
    IF pipeHandler = null
    THEN IF call.stack = <<>>
         THEN [call EXCEPT !.status = "done", !.outcome = Undefined]
         ELSE [call EXCEPT !.stack[Len(call.stack)].pc = "resumed",
                           !.stack[Len(call.stack)].got = Undefined]
    ELSE [call EXCEPT
            !.stack = Append(@, Frame(pipeHandler, request, commandOrQueryHandler, options)),
            !.log = Append(@, Event("before", pipeHandler, handlers[pipeHandler].pipe,
                                    request, options, NoOutcome))]

\* invokeNext: no node: call the terminal; otherwise call the node's
\* pipe.handle(request, continuation, options).
invokeNext(call, request, pipeHandler, commandOrQueryHandler, options) ==
    IF pipeHandler = null
    THEN [call EXCEPT
            !.stack = Append(@, Frame(null, request, commandOrQueryHandler, options)),
            !.log = Append(@, Event("Terminal", null, commandOrQueryHandler.bus,
                                    commandOrQueryHandler.req, NoOption, NoOutcome))]
    ELSE [call EXCEPT
            !.stack = Append(@, Frame(pipeHandler, request, commandOrQueryHandler, options)),
            !.log = Append(@, Event("before", pipeHandler, handlers[pipeHandler].pipe,
                                    request, options, NoOutcome))]

\* (mutant) a dispatch cuts the chain behind its first node
handlersAfterInvoke_unlink(hs) ==
    IF Len(hs) > 0 THEN [hs EXCEPT ![1].next = null] ELSE hs

\* What a dispatch does to this.handlers: invoke and invokeNext only read it.
handlersAfterInvoke(hs) == hs

\* (mutant) the continuation does not hand the options on
continuation_noOptions(call, f) ==
    invokeNext(call, f.req, NextOf(handlers, f.node), f.term, Absent)

\* (mutant) request and options are kept in fields of the Invoker, written by
\* each invoke, and the continuation reads the fields
continuation_shared(call, f) ==
    LET inFlight == {d \in CallIds : calls[d].status = "running"}
        latest == CHOOSE d \in inFlight : \A e \in inFlight : e <= d
    IN  invokeNext(call, calls[latest].request, NextOf(handlers, f.node), f.term,
                   calls[latest].options)

\* (mutant) the continuation keeps the promise of its first call and gives
\* it again when it is called again
continuation_memo(call, f) ==
    IF f.pc = "resumed"
    THEN [call EXCEPT !.stack[Len(call.stack)].pc = "resumed"]
    ELSE invokeNext(call, f.req, NextOf(handlers, f.node), f.term, f.opt)

\* (mutant) the successor is the one the node had when invoke started
continuation_snapshot(call, f) ==
    LET atStart == call.log[1].chain
    IN  invokeNext(call, f.req, IF f.node >= atStart THEN null ELSE f.node + 1,
                   f.term, f.opt)

\* the continuation a behavior f gets: () => this.invokeNext(request,
\* pipeHandler.next!, commandOrQueryHandler, options)
continuation(call, f) ==
    invokeNext(call, f.req, NextOf(handlers, f.node), f.term, f.opt)

\* invoke: invokeNext(request, this.handlers[0], commandOrQueryHandler, options)
invoke(call, request, commandOrQueryHandler, options) ==
    invokeNext(call, request, FirstHandler(handlers), commandOrQueryHandler, options)

\* (mutant) both branches bind the command bus
execute_commandBusOnly(call, commandOrQuery, options) ==
    invoke(call, commandOrQuery,
           [bus |-> "CommandBus", req |-> commandOrQuery], options)

\* (mutant) the facade hands on a copy of the request, not the object given
execute_copy(call, commandOrQuery, options) ==
    LET copy == [commandOrQuery EXCEPT !.id = 0]
    IN  IF commandOrQuery.kind = "Command"
        THEN invoke(call, copy, [bus |-> "CommandBus", req |-> copy], options)
        ELSE invoke(call, copy, [bus |-> "QueryBus", req |-> copy], options)

\* Mediator.execute: instanceof Command ? commandBus : queryBus
execute(call, commandOrQuery, options) ==
    IF commandOrQuery.kind = "Command"
    THEN invoke(call, commandOrQuery,
                [bus |-> "CommandBus", req |-> commandOrQuery], options)
    ELSE invoke(call, commandOrQuery,
                [bus |-> "QueryBus", req |-> commandOrQuery], options)

\* (mutant) the direct facade has its two buses the wrong way round
executeDirect_swapped(call, commandOrQuery) ==
    LET bus == IF commandOrQuery.kind = "Command" THEN "QueryBus" ELSE "CommandBus"
    IN  [call EXCEPT
            !.stack = Append(@, Frame(null, commandOrQuery,
                                      [bus |-> bus, req |-> commandOrQuery], Absent)),
            !.log = Append(@, Event("Terminal", null, bus, commandOrQuery,
                                    NoOption, NoOutcome))]

\* the Mediator without pipeline: if (commandOrQuery instanceof Command)
\* return this.commandBus.execute(commandOrQuery); return
\* this.queryBus.execute(commandOrQuery)
executeDirect(call, commandOrQuery) ==
    LET bus == IF commandOrQuery.kind = "Command" THEN "CommandBus" ELSE "QueryBus"
    IN  [call EXCEPT
            !.stack = Append(@, Frame(null, commandOrQuery,
                                      [bus |-> bus, req |-> commandOrQuery], Absent)),
            !.log = Append(@, Event("Terminal", null, bus, commandOrQuery,
                                    NoOption, NoOutcome))]

Top(call) == call.stack[Len(call.stack)]
Pop(stack) == SubSeq(stack, 1, Len(stack) - 1)

\* (mutant) the promise of handle() or of the terminal is not returned: the
\* caller gets undefined
Settle_lost(call, out) ==
    LET rest == Pop(call.stack)
    IN  IF rest = <<>>
        THEN [call EXCEPT !.stack = rest, !.status = "done", !.outcome = Undefined]
        ELSE [call EXCEPT !.stack = [rest EXCEPT ![Len(rest)].pc = "resumed",
                                                 ![Len(rest)].got = Undefined]]

\* (mutant) a failure is caught on the way and turned into a result
Settle_swallow(call, out) ==
    LET rest == Pop(call.stack)
        kept == [out EXCEPT !.ok = TRUE]
    IN  IF rest = <<>>
        THEN [call EXCEPT !.stack = rest, !.status = "done", !.outcome = kept]
        ELSE [call EXCEPT !.stack = [rest EXCEPT ![Len(rest)].pc = "resumed",
                                                 ![Len(rest)].got = kept]]

\* (mutant) the Invoker catches a failure and throws one of its own in its place
Settle_wrap(call, out) ==
    LET rest == Pop(call.stack)
        given == IF out.ok THEN out ELSE [out EXCEPT !.by = "PipelineBehaviorInvoker"]
    IN  IF rest = <<>>
        THEN [call EXCEPT !.stack = rest, !.status = "done", !.outcome = given]
        ELSE [call EXCEPT !.stack = [rest EXCEPT ![Len(rest)].pc = "resumed",
                                                 ![Len(rest)].got = given]]

\* The promise an invokeNext returned settles: invokeNext returns the very
\* promise of handle() or of the terminal, so the awaiting caller (the
\* behavior below, or the caller of execute) gets the outcome as it is.
Settle(call, out) ==
    LET rest == Pop(call.stack)
    IN  IF rest = <<>>
        THEN [call EXCEPT !.stack = rest, !.status = "done", !.outcome = out]
        ELSE [call EXCEPT !.stack = [rest EXCEPT ![Len(rest)].pc = "resumed",
                                                 ![Len(rest)].got = out]]

OwnOutcome(f, ok) ==
    [ok |-> ok, by |-> handlers[f.node].pipe, node |-> f.node, req |-> f.req]

BusOutcome(f, ok) ==
    [ok |-> ok, by |-> f.term.bus, node |-> null, req |-> f.term.req]

Running(c) == calls[c].status = "running"

Unused == \A c \in CallIds : calls[c].status = "idle"
MayDeviate(c) == calls[c].deviations < MaxDeviations
Deviated(call) == [call EXCEPT !.deviations = @ + 1]

\* ------------------------------------------------------------- actions
Init ==
    /\ \E options \in ModuleOptions :
          /\ handlers = forRoot(options)
          /\ registered = Configured(options)
          /\ invokedOutside = invokedByConstructor(Configured(options))
    /\ calls = [c \in CallIds |-> IdleCall]

AddPipe(pipe) ==
    /\ Len(handlers) < MaxChain
    /\ handlers' = addPipe(handlers, pipe)
    /\ registered' = Append(registered, pipe)
    /\ invokedOutside' = invokedOutside \o invokedByAddPipe(handlers, pipe)
    /\ calls' = [c \in CallIds |->
                   IF Running(c) THEN [calls[c] EXCEPT !.raced = TRUE] ELSE calls[c]]

\* a caller dispatches: Mediator.execute(request, options)
Execute(c, kind, options) ==
    /\ ~Running(c)
    /\ c > 1 => calls[c - 1].status # "idle"
    /\ LET request == [kind |-> kind, id |-> c]
           started == [IdleCall EXCEPT
                         !.status = "running",
                         !.request = request, !.options = options,
                         !.prior = {calls[d].options : d \in
                                      {x \in CallIds : calls[x].status = "done"}}]
       IN  calls' = [calls EXCEPT ![c] = execute(started, request, options)]
    /\ handlers' = handlersAfterInvoke(handlers)
    /\ UNCHANGED <<registered, invokedOutside>>

\* a caller dispatches one request object through both facades: slot 1 is
\* the Mediator with the pipeline, slot 2 the Mediator that calls the bus
ExecuteBoth(kind, options) ==
    /\ MaxCalls >= 2
    /\ ~Running(1) /\ ~Running(2)
    /\ LET request == [kind |-> kind, id |-> 1]
           started == [IdleCall EXCEPT !.status = "running", !.request = request]
       IN  calls' = [calls EXCEPT
                        ![1] = execute([started EXCEPT !.options = options],
                                       request, options),
                        ![2] = executeDirect([started EXCEPT !.options = Absent],
                                             request)]
    /\ handlers' = handlersAfterInvoke(handlers)
    /\ UNCHANGED <<registered, invokedOutside>>

\* a behavior calls its continuation and awaits it
CallNext(c) ==
    /\ Running(c)
    /\ LET f == Top(calls[c])
           n == Len(calls[c].stack)
       IN  /\ f.node # null
           /\ f.pc = "running"
           /\ calls' = [calls EXCEPT ![c] =
                  continuation([calls[c] EXCEPT !.stack[n].pc = "awaiting",
                                                     !.nexts[f.node] = @ + 1], f)]
    /\ handlers' = handlersAfterInvoke(handlers)
    /\ UNCHANGED <<registered, invokedOutside>>

\* a behavior that has an outcome of next() calls its continuation again
CallNextAgain(c) ==
    /\ Running(c)
    /\ MayDeviate(c)
    /\ LET f == Top(calls[c])
           n == Len(calls[c].stack)
       IN  /\ f.node # null
           /\ f.pc = "resumed"
           /\ calls' = [calls EXCEPT ![c] =
                  continuation(Deviated([calls[c] EXCEPT !.stack[n].pc = "awaiting",
                                                     !.nexts[f.node] = @ + 1]), f)]
    /\ handlers' = handlersAfterInvoke(handlers)
    /\ UNCHANGED <<registered, invokedOutside>>

\* the bus call of the terminal settles, with the handler's result or a failure
TerminalCompletes(c, ok) ==
    /\ Running(c)
    /\ LET f == Top(calls[c])
       IN  /\ f.node = null
           /\ calls' = [calls EXCEPT ![c] =
                  Settle([calls[c] EXCEPT !.termOut = BusOutcome(f, ok)],
                         BusOutcome(f, ok))]
    /\ UNCHANGED <<handlers, registered, invokedOutside>>

\* a behavior returns (ok) or throws (~ok) without having called next
ShortCircuit(c, ok) ==
    /\ Running(c)
    /\ MayDeviate(c)
    /\ LET f == Top(calls[c])
           out == OwnOutcome(f, ok)
       IN  /\ f.node # null
           /\ f.pc = "running"
           /\ calls' = [calls EXCEPT ![c] =
                  Settle(Deviated([calls[c] EXCEPT !.log = Append(@,
                             Event("return", f.node, handlers[f.node].pipe, f.req, f.opt, out))]),
                         out)]
    /\ UNCHANGED <<handlers, registered, invokedOutside>>

\* a behavior returns what its next() gave: after a result its "after"
\* logic runs; a failure of the await leaves handle() at once
PassThrough(c) ==
    /\ Running(c)
    /\ LET f == Top(calls[c])
           ev == IF f.got.ok THEN "after" ELSE "rethrow"
       IN  /\ f.node # null
           /\ f.pc = "resumed"
           /\ calls' = [calls EXCEPT ![c] =
                  Settle([calls[c] EXCEPT !.log = Append(@,
                             Event(ev, f.node, handlers[f.node].pipe, f.req, f.opt, f.got))],
                         f.got)]
    /\ UNCHANGED <<handlers, registered, invokedOutside>>

\* a behavior replaces what its next() gave by an outcome of its own: it
\* catches a failure (recovers, or throws another), or fails after a result
Override(c, ok) ==
    /\ Running(c)
    /\ MayDeviate(c)
    /\ LET f == Top(calls[c])
           out == OwnOutcome(f, ok)
       IN  /\ f.node # null
           /\ f.pc = "resumed"
           /\ calls' = [calls EXCEPT ![c] =
                  Settle(Deviated([calls[c] EXCEPT !.log = Append(@,
                             Event("catch", f.node, handlers[f.node].pipe, f.req, f.opt, out))]),
                         out)]
    /\ UNCHANGED <<handlers, registered, invokedOutside>>

\* Construction is finished before the first dispatch; then one dispatch at
\* a time, any number of them one after another.
Next ==
    \/ \E p \in Pipes : Unused /\ AddPipe(p)
    \/ \E k \in Kinds, o \in Options : Execute(1, k, o)
    \/ CallNext(1)
    \/ CallNextAgain(1)
    \/ \E ok \in BOOLEAN : TerminalCompletes(1, ok)
    \/ \E ok \in BOOLEAN : ShortCircuit(1, ok)
    \/ PassThrough(1)
    \/ \E ok \in BOOLEAN : Override(1, ok)

Spec == Init /\ [][Next]_vars

\* MaxCalls dispatches on one constructed Invoker, in flight together or one
\* after another, their steps interleaved at will; every behavior calls next
\* once and returns what it gave.
\* what the callers pass: a Command with options, a Query without
ConcurrentInputs ==
    {[kind |-> "Command", options |-> "optA"], [kind |-> "Query", options |-> Absent]}

NextConcurrent ==
    \/ \E c \in CallIds, in \in ConcurrentInputs :
          calls[c].status = "idle" /\ Execute(c, in.kind, in.options)
    \/ \E c \in CallIds : CallNext(c)
    \/ \E c \in CallIds, ok \in BOOLEAN : TerminalCompletes(c, ok)
    \/ \E c \in CallIds : PassThrough(c)

SpecConcurrent == Init /\ [][NextConcurrent]_vars

\* addPipe is called at any time, also while a dispatch is in flight; one
\* dispatch, of a Command, whose behaviors call next, call it again, or
\* return what it gave.
NextRace ==
    \/ \E p \in Pipes : AddPipe(p)
    \/ calls[1].status = "idle" /\ Execute(1, "Command", Absent)
    \/ CallNext(1)
    \/ CallNextAgain(1)
    \/ \E ok \in BOOLEAN : TerminalCompletes(1, ok)
    \/ PassThrough(1)

SpecRace == Init /\ [][NextRace]_vars

\* One dispatch at a time in which no behavior calls next a second time;
\* every behavior goes on in the end (calls next, returns or throws) and the
\* bus call of the terminal settles in the end.
Step(c) ==
    \/ CallNext(c)
    \/ \E ok \in BOOLEAN : TerminalCompletes(c, ok)
    \/ \E ok \in BOOLEAN : ShortCircuit(c, ok)
    \/ PassThrough(c)
    \/ \E ok \in BOOLEAN : Override(c, ok)

NextOnce ==
    \/ \E k \in Kinds, o \in Options : Execute(1, k, o)
    \/ CallNext(1)
    \/ \E ok \in BOOLEAN : TerminalCompletes(1, ok)
    \/ \E ok \in BOOLEAN : ShortCircuit(1, ok)
    \/ PassThrough(1)
    \/ \E ok \in BOOLEAN : Override(1, ok)

SpecOnce == Init /\ [][NextOnce]_vars /\ WF_vars(Step(1))

\* The two facades side by side, each request given to both; the behaviors
\* call next once and return what it gave; each bus call settles on its own.
NextPlain ==
    \/ \E k \in Kinds, o \in Options : ExecuteBoth(k, o)
    \/ \E c \in CallIds : CallNext(c)
    \/ \E c \in CallIds, ok \in BOOLEAN : TerminalCompletes(c, ok)
    \/ \E c \in CallIds : PassThrough(c)

SpecPlain == Init /\ [][NextPlain]_vars

\* ------------------------------------------------------------- claims
Done(c) == calls[c].status = "done"
Started(c) == calls[c].status # "idle"
Last(seq) == seq[Len(seq)]

\* the bus Mediator.execute is to bind for a request
BusFor(request) == IF request.kind = "Command" THEN "CommandBus" ELSE "QueryBus"

\* what an event sequence shows: which step, of which node, by whom
Shape(log) == [i \in 1..Len(log) |-> <<log[i].ev, log[i].node, log[i].who>>]

\* B1:before .. Bn:before, Terminal, Bn .. B1 on the way back, for the
\* behaviors bs in registration order: each Bi:after when the terminal ended
\* ok, and each Bi left by the failure of its await when it did not
OnionOf(bs, bus, ok) ==
    LET n == Len(bs)
    IN  [i \in 1..(2 * n + 1) |->
            IF i <= n THEN <<"before", i, bs[i]>>
            ELSE IF i = n + 1 THEN <<"Terminal", null, bus>>
            ELSE <<IF ok THEN "after" ELSE "rethrow", 2 * n + 2 - i, bs[2 * n + 2 - i]>>]

Onion(bs, bus) == OnionOf(bs, bus, TRUE)

\* every behavior invoked called next once and returned what it gave
WellBehaved(c) == calls[c].deviations = 0

Events(c, ev) == {i \in 1..Len(calls[c].log) : calls[c].log[i].ev = ev}

\* C1: a dispatch over the chain B1..Bn (n >= 1, registration order) in which
\* every behavior runs its before step, calls next once, awaits it and runs
\* its after step produces exactly B1:before, .., Bn:before, Terminal,
\* Bn:after, .., B1:after, the terminal run once.
C1_OnionOrdering ==
    \A c \in CallIds :
        (Done(c) /\ WellBehaved(c) /\ calls[c].outcome.ok /\ Len(registered) >= 1)
        => /\ Shape(calls[c].log) = Onion(registered, BusFor(calls[c].request))
           /\ Cardinality(Events(c, "Terminal")) = 1

C1_Witness ==
    /\ Len(registered) = 3
    /\ registered[1] # registered[2]
    /\ Done(1) /\ WellBehaved(1) /\ calls[1].outcome.ok
    /\ Len(calls[1].log) = 7

\* the behavior of node k never called its continuation in dispatch c
NeverCalledNext(c, k) ==
    /\ \A i \in 1..Len(calls[c].stack) :
          calls[c].stack[i].node = k => calls[c].stack[i].pc = "running"
    /\ \A i \in 1..Len(calls[c].log) :
          calls[c].log[i].node = k => calls[c].log[i].ev \in {"before", "return"}

\* C2: when Bk returns without ever calling next, no Bj with j > k and no
\* terminal is invoked in that dispatch; what Bk returned is what B(k-1) gets
\* from its next, and is the outcome of the dispatch when k = 1 or every
\* earlier behavior returns what next gave.
C2_ShortCircuit ==
    \A c \in CallIds : \A k \in 1..Len(registered) :
        (NeverCalledNext(c, k)
           /\ \E i \in Events(c, "return") : calls[c].log[i].node = k)
        => /\ Events(c, "Terminal") = {}
           /\ \A i \in 1..Len(calls[c].log) : calls[c].log[i].node <= k
           /\ LET e == Last(calls[c].log)
              IN  (e.ev = "return" /\ e.node = k) =>
                    /\ Running(c) => /\ Top(calls[c]).node = k - 1
                                     /\ Top(calls[c]).pc = "resumed"
                                     /\ Top(calls[c]).got = e.out
                    /\ Done(c) => k = 1 /\ calls[c].outcome = e.out
           /\ LET rs == {i \in Events(c, "return") : calls[c].log[i].node = k}
                  r == CHOOSE i \in rs : \A x \in rs : x <= i
              IN  (Done(c) /\ \A i \in (r + 1)..Len(calls[c].log) :
                                 calls[c].log[i].ev \in {"after", "rethrow"})
                  => calls[c].outcome = calls[c].log[r].out

C2_Witness ==
    /\ Len(registered) = 3
    /\ Done(1)
    /\ \E i \in Events(1, "return") :
          /\ calls[1].log[i].node = 2
          /\ ~calls[1].log[i].out.ok
          /\ calls[1].outcome = calls[1].log[i].out

\* C3: with no behaviors, invoke calls the terminal exactly once, invokes no
\* behavior, and returns exactly the terminal's outcome, nothing in between.
C3_EmptyChain ==
    \A c \in CallIds :
        (Started(c) /\ Len(registered) = 0)
        => /\ Shape(calls[c].log) = <<<<"Terminal", null, BusFor(calls[c].request)>>>>
           /\ Done(c) => /\ calls[c].outcome = calls[c].termOut
                         /\ calls[c].outcome.by = BusFor(calls[c].request)
                         /\ calls[c].outcome.req = calls[c].request

C3_Witness ==
    /\ Len(registered) = 0
    /\ Done(1) /\ ~calls[1].outcome.ok
    /\ calls[1].prior # {}

\* the outcome made by the last step of the log that made one: the terminal,
\* or a behavior that returned or threw something of its own
LastProduced(c) ==
    LET log == calls[c].log
        made == {i \in 1..Len(log) : log[i].ev \in {"Terminal", "return", "catch"}}
        i == CHOOSE m \in made : \A x \in made : x <= m
    IN  IF log[i].ev = "Terminal" THEN calls[c].termOut ELSE log[i].out

\* C4: the Invoker and the Facade never catch, wrap, retry or translate an
\* outcome: what the dispatch returns is the outcome as the terminal, or the
\* last behavior that made one of its own, made it; with behaviors that all
\* return what next gave it is the terminal's outcome, the terminal run once.
C4_OutcomePassThrough ==
    \A c \in CallIds :
        Done(c) =>
            /\ calls[c].outcome = LastProduced(c)
            /\ \A i \in Events(c, "after") \cup Events(c, "rethrow") :
                  calls[c].log[i].out.ok = (calls[c].log[i].ev = "after")
            /\ WellBehaved(c) => /\ calls[c].outcome = calls[c].termOut
                                 /\ Cardinality(Events(c, "Terminal")) = 1

C4_Witness ==
    /\ Len(registered) = 3
    /\ Done(1) /\ WellBehaved(1)
    /\ ~calls[1].outcome.ok
    /\ Cardinality(Events(1, "rethrow")) = 3

\* C5: execute binds one terminal: the command bus with the request for a
\* Command (the query bus is never called), the query bus with the request
\* for a Query (the command bus is never called); the call goes through
\* invoke with the same request and options.
C5_FacadeRouting ==
    \A c \in CallIds :
        (Started(c) /\ calls[c].request.kind \in {"Command", "Query"})
        => LET call == calls[c]
               bus == IF call.request.kind = "Command" THEN "CommandBus" ELSE "QueryBus"
           IN  /\ bus = BusFor(call.request)
               /\ \A i \in 1..Len(call.stack) :
                     call.stack[i].term = [bus |-> bus, req |-> call.request]
               /\ \A i \in Events(c, "Terminal") :
                     call.log[i].who = bus /\ call.log[i].req = call.request
               /\ call.termOut # NoOutcome =>
                     call.termOut.by = bus /\ call.termOut.req = call.request
               /\ Len(call.log) >= 1
               /\ call.log[1].ev = (IF Len(registered) = 0 THEN "Terminal" ELSE "before")
               /\ call.log[1].ev = "before" =>
                     call.log[1].req = call.request /\ call.log[1].opt = call.options

C5_Witness ==
    /\ Done(1) /\ calls[1].request.kind = "Query"
    /\ calls[1].options = "optA"
    /\ Len(registered) = 2
    /\ calls[1].termOut.by = "QueryBus"

\* C6: a request that is neither a Command nor a Query is not routed: the
\* dispatch fails at once, and the request is delegated to no bus.
C6_MalformedRequestFailsFast ==
    \A c \in CallIds :
        (Started(c) /\ calls[c].request.kind \notin {"Command", "Query"})
        => /\ Done(c) => ~calls[c].outcome.ok
           /\ \A i \in Events(c, "Terminal") :
                 calls[c].log[i].who \notin {"CommandBus", "QueryBus"}

\* C7: every behavior invoked in a dispatch gets the options value the caller
\* passed, as it is; with options omitted every behavior gets undefined,
\* whatever an earlier dispatch on the same Invoker was given.
C7_OptionsPropagation ==
    \A c \in CallIds :
        Started(c) =>
            /\ \A i \in 1..Len(calls[c].log) :
                  calls[c].log[i].ev # "Terminal" => calls[c].log[i].opt = calls[c].options
            /\ \A i \in 1..Len(calls[c].stack) :
                  calls[c].stack[i].opt = calls[c].options

C7_Witness ==
    /\ Len(registered) = 3
    /\ Done(1)
    /\ calls[1].options = Absent
    /\ calls[1].prior = {"optA"}
    /\ Cardinality(Events(1, "before")) = 3
    /\ \A i \in Events(1, "before") : calls[1].log[i].opt = Absent

IsPrefix(s, t) == Len(s) <= Len(t) /\ s = SubSeq(t, 1, Len(s))

\* every event and every frame of dispatch c carries c's own request, options
\* and terminal
OwnArguments(c) ==
    LET call == calls[c]
        term == [bus |-> BusFor(call.request), req |-> call.request]
    IN  /\ \A i \in 1..Len(call.log) :
              /\ call.log[i].req = call.request
              /\ call.log[i].ev = "Terminal" => call.log[i].who = term.bus
              /\ call.log[i].ev # "Terminal" => call.log[i].opt = call.options
        /\ \A i \in 1..Len(call.stack) :
              /\ call.stack[i].req = call.request
              /\ call.stack[i].opt = call.options
              /\ call.stack[i].term = term

\* C8: with several dispatches in flight on one Invoker, their steps
\* interleaved at the await points, each dispatch on its own shows the onion
\* order with its own terminal, and each invocation of a behavior or of the
\* terminal gets that dispatch's own request and options.
C8_ConcurrentDispatchesIndependent ==
    \A c \in CallIds :
        Started(c) =>
            /\ OwnArguments(c)
            /\ \E ok \in BOOLEAN :
                  IsPrefix(Shape(calls[c].log),
                           OnionOf(registered, BusFor(calls[c].request), ok))
            /\ Done(c) =>
                  /\ Shape(calls[c].log) =
                        OnionOf(registered, BusFor(calls[c].request), calls[c].outcome.ok)
                  /\ calls[c].outcome = calls[c].termOut
                  /\ calls[c].outcome.req = calls[c].request

C8_Witness ==
    /\ Len(registered) = 3
    /\ Done(1) /\ calls[1].outcome.ok
    /\ Running(2) /\ calls[2].prior = {}
    /\ Len(calls[2].stack) = 2
    /\ calls[1].options # calls[2].options
    /\ calls[1].request.kind # calls[2].request.kind

\* C9: a dispatch never changes the handlers list or a node's pipe or next:
\* after any number of dispatches, however they ended, the chain is as the
\* constructor built it, and a later dispatch whose behaviors answer alike
\* produces the same event sequence, events of its own only.
C9_NoCrossCallState ==
    \A c \in CallIds :
        Started(c) =>
            /\ handlers = constructor(registered)
            /\ (calls[c].prior # {} /\ Done(c) /\ WellBehaved(c))
               => /\ Shape(calls[c].log) =
                       OnionOf(registered, BusFor(calls[c].request), calls[c].outcome.ok)
                  /\ \A i \in 1..Len(calls[c].log) :
                        calls[c].log[i].req = calls[c].request

C9_Witness ==
    /\ Len(registered) = 3
    /\ Done(1) /\ WellBehaved(1)
    /\ calls[1].prior # {}
    /\ Len(calls[1].log) = 7

\* the who of the events ev of a log, in log order
RECURSIVE Who(_, _)
Who(log, ev) ==
    IF log = <<>> THEN <<>>
    ELSE IF Head(log).ev = ev THEN <<Head(log).who>> \o Who(Tail(log), ev)
    ELSE Who(Tail(log), ev)

\* C10: after the constructor over p1..pn and any further addPipe, node i
\* holds the i-th registered behavior, the chain is as long as the number of
\* registrations, nothing is reordered, and a behavior registered twice is
\* two nodes and runs twice per dispatch.
C10_RegistrationOrder ==
    /\ Len(handlers) = Len(registered)
    /\ \A i \in 1..Len(registered) : handlers[i].pipe = registered[i]
    /\ \A c \in CallIds :
          (Done(c) /\ WellBehaved(c)) => Who(calls[c].log, "before") = registered

C10_Witness ==
    /\ Len(registered) = 3
    /\ registered[1] = registered[3] /\ registered[1] # registered[2]
    /\ Done(1) /\ WellBehaved(1)
    /\ Cardinality(Events(1, "before")) = 3

\* the configurations that name no behavior: no options, and an empty list
EmptyConfigurations == {options \in ModuleOptions : Configured(options) = <<>>}

\* C11: forRoot with no options, and forRoot with an empty pipelineBehaviors
\* list, both build an Invoker with an empty chain; on that Invoker execute
\* of a Command or a Query runs only the bus handler of its kind and returns
\* its result.
C11_EmptyConfiguration ==
    /\ Cardinality(EmptyConfigurations) = 2
    /\ \A options \in EmptyConfigurations : forRoot(options) = <<>>
    /\ (\E options \in EmptyConfigurations : handlers = forRoot(options))
       => \A c \in CallIds :
            (Started(c) /\ calls[c].request.kind \in {"Command", "Query"})
            => /\ Shape(calls[c].log) = <<<<"Terminal", null, BusFor(calls[c].request)>>>>
               /\ Done(c) => /\ calls[c].outcome = calls[c].termOut
                             /\ calls[c].outcome.by = BusFor(calls[c].request)
                             /\ calls[c].outcome.req = calls[c].request

C11_Witness ==
    /\ handlers = forRoot(NoModuleOptions)
    /\ handlers = forRoot([present |-> TRUE, pipelineBehaviors |-> <<>>])
    /\ registered = <<>>
    /\ Done(1) /\ calls[1].request.kind = "Query" /\ calls[1].outcome.ok
    /\ calls[1].outcome.by = "QueryBus"

\* C12: constructing the Invoker from any behavior list, and every addPipe
\* call, invokes no handle() and no terminal: no handle() call is ever made
\* outside a dispatch, and an addPipe step adds no event and no frame to any
\* dispatch.
C12_ConstructionPassive ==
    /\ [](invokedOutside = <<>>)
    /\ [](Unused => \A c \in CallIds : calls[c].log = <<>> /\ calls[c].stack = <<>>)
    /\ [][registered' # registered
           => \A c \in CallIds : /\ calls'[c].log = calls[c].log
                                  /\ calls'[c].stack = calls[c].stack]_vars

C12_Witness ==
    /\ Len(handlers) = 3
    /\ calls[1].raced /\ Running(1)
    /\ Len(calls[1].log) = 1
    /\ invokedOutside = <<>>

\* the nodes met from node i on by following next, at most k of them
RECURSIVE Walk(_, _, _)
Walk(hs, i, k) ==
    IF i = null \/ k = 0 THEN <<>>
    ELSE <<i>> \o Walk(hs, hs[i].next, k - 1)

\* C13: after construction and any sequence of addPipe calls, handlers[i].next
\* is handlers[i+1] for every i before the last, the last node's next is
\* null, and following next from the first node meets every node once and
\* ends (no cycle); also when one behavior is in the chain more than once.
C13_ChainStructure ==
    LET n == Len(handlers)
    IN  /\ \A i \in 1..n : handlers[i].next = IF i < n THEN i + 1 ELSE null
        /\ Walk(handlers, FirstHandler(handlers), n + 1) = [i \in 1..n |-> i]
        /\ \A i \in 1..n : handlers[i].pipe = registered[i]
        /\ n = Len(registered)

C13_Witness ==
    /\ Len(handlers) = 3
    /\ handlers[1].pipe = handlers[3].pipe
    /\ handlers[1].pipe = handlers[2].pipe
    /\ calls[1].raced /\ Running(1)

\* C14: addPipe(b) on a chain of length n yields a chain of length n+1 whose
\* last node holds b with next = null; of the existing nodes it changes only
\* the next link of the previous tail, from null to the new node; every
\* existing pipe and every other next link stay as they were.
C14_AddPipeFrame ==
    [][registered' # registered
       => LET n == Len(handlers)
              b == Last(registered')
          IN  /\ registered' = Append(registered, b)
              /\ Len(handlers') = n + 1
              /\ handlers'[n + 1] = Handler(b, null)
              /\ \A i \in 1..n : handlers'[i].pipe = handlers[i].pipe
              /\ \A i \in 1..(n - 1) : handlers'[i].next = handlers[i].next
              /\ n > 0 => /\ handlers[n].next = null
                          /\ handlers'[n].next = n + 1]_vars

C14_Witness ==
    /\ Len(handlers) = 3
    /\ handlers[2].pipe # handlers[3].pipe
    /\ handlers[2].next = 3 /\ handlers[3].next = null
    /\ calls[1].raced /\ Done(1)

\* entries and exits, in order: a behavior entered ("in"), the terminal run,
\* a behavior left ("out"), with the node
Passes(log) ==
    [i \in 1..Len(log) |->
        IF log[i].ev = "before" THEN <<"in", log[i].node>>
        ELSE IF log[i].ev = "Terminal" THEN <<"Terminal", null>>
        ELSE <<"out", log[i].node>>]

\* B1..Bk entered, then m times the pass B(k+1)..Bn in, terminal,
\* Bn..B(k+1) out, then Bk..B1 left
ReentrantOnion(n, k, m) ==
    LET pass == 2 * (n - k) + 1
        total == 2 * k + m * pass
    IN  [i \in 1..total |->
            IF i <= k THEN <<"in", i>>
            ELSE IF i > k + m * pass THEN <<"out", total - i + 1>>
            ELSE LET r == ((i - k - 1) % pass) + 1
                 IN  IF r <= n - k THEN <<"in", k + r>>
                     ELSE IF r = n - k + 1 THEN <<"Terminal", null>>
                     ELSE <<"out", 2 * n - k + 2 - r>>]

\* every invocation of Bj called next exactly once
CalledNextOnceEach(c, j) ==
    /\ calls[c].nexts[j] = Cardinality({i \in Events(c, "before") : calls[c].log[i].node = j})
    /\ \A i \in Events(c, "return") : calls[c].log[i].node # j

\* C15: in a completed dispatch over B1..Bn in which Bk called next m times
\* (m >= 0) and every other behavior called next exactly once per
\* invocation, B1..Bk are invoked once, B(k+1)..Bn and the terminal m times
\* each, every downstream pass in onion order.
C15_ReentrantContinuation ==
    \A c \in CallIds : \A k \in 1..Len(registered) :
        (Done(c) /\ \A j \in (1..Len(registered)) \ {k} : CalledNextOnceEach(c, j))
        => LET n == Len(registered)
               m == calls[c].nexts[k]
               invoked(j) == Cardinality({i \in Events(c, "before") : calls[c].log[i].node = j})
           IN  /\ Passes(calls[c].log) = ReentrantOnion(n, k, m)
               /\ \A j \in 1..k : invoked(j) = 1
               /\ \A j \in (k + 1)..n : invoked(j) = m
               /\ Cardinality(Events(c, "Terminal")) = m

C15_Witness ==
    /\ Len(registered) = 3
    /\ Done(1)
    /\ calls[1].nexts[1] = 1 /\ calls[1].nexts[2] = 2 /\ calls[1].nexts[3] = 2
    /\ Cardinality(Events(1, "Terminal")) = 2

\* event i of dispatch c is where an outcome was made that the behaviors
\* below may intercept: a behavior caught what next gave and returned or threw
\* its own, a behavior threw without calling next, or the terminal failed
Intercepted(c, i) ==
    LET e == calls[c].log[i]
    IN  \/ e.ev = "catch"
        \/ e.ev = "return" /\ ~e.out.ok
        \/ /\ e.ev = "Terminal"
           /\ \A x \in Events(c, "Terminal") : x <= i
           /\ ~(i = Len(calls[c].log) /\ Running(c) /\ Top(calls[c]).node = null)
           /\ ~calls[c].termOut.ok

MadeAt(c, i) ==
    IF calls[c].log[i].ev = "Terminal" THEN calls[c].termOut ELSE calls[c].log[i].out

\* the events i+1..j are all of behaviors that return what next gave
OnlyPassed(c, i, j) ==
    \A x \in (i + 1)..j : calls[c].log[x].ev \in {"after", "rethrow"}

\* C16: when the terminal or a behavior fails, or a behavior Bk catches what
\* its next gave and returns v (or throws f), every behavior below, as long
\* as none intercepts, observes exactly that outcome from its next (v, f or
\* the original failure, never another), and so does the behavior that then
\* intercepts it or the caller.
C16_FailureInterception ==
    \A c \in CallIds : \A i \in 1..Len(calls[c].log) :
        Intercepted(c, i)
        => LET log == calls[c].log
               o == MadeAt(c, i)
               below == IF log[i].ev = "Terminal" THEN Len(handlers) ELSE log[i].node - 1
           IN  /\ \A j \in (i + 1)..Len(log) :
                     OnlyPassed(c, i, j)
                     => /\ log[j].out = o
                        /\ log[j].ev = IF o.ok THEN "after" ELSE "rethrow"
                        /\ log[j].node = below - (j - i - 1)
               /\ (Done(c) /\ OnlyPassed(c, i, Len(log))) => calls[c].outcome = o
               /\ ( /\ Running(c) /\ OnlyPassed(c, i, Len(log))
                    /\ Top(calls[c]).pc = "resumed")
                  => Top(calls[c]).got = o

C16_Witness ==
    /\ Len(registered) = 3
    /\ Done(1) /\ ~calls[1].termOut.ok
    /\ Shape(calls[1].log) =
          <<<<"before", 1, registered[1]>>, <<"before", 2, registered[2]>>,
            <<"before", 3, registered[3]>>, <<"Terminal", null, BusFor(calls[1].request)>>,
            <<"rethrow", 3, registered[3]>>, <<"catch", 2, registered[2]>>,
            <<"after", 1, registered[1]>>>>
    /\ calls[1].outcome.ok /\ calls[1].outcome.node = 2
    /\ calls[1].log[7].out = calls[1].outcome

\* C17: in one execute call every behavior invoked gets the request object
\* the caller passed, on the way in and at each re-entry, and the terminal
\* hands that same object to the bus; nothing replaces it.
C17_RequestUnchanged ==
    \A c \in CallIds :
        Started(c)
        => /\ \A i \in 1..Len(calls[c].log) : calls[c].log[i].req = calls[c].request
           /\ \A i \in 1..Len(calls[c].stack) :
                 /\ calls[c].stack[i].req = calls[c].request
                 /\ calls[c].stack[i].term.req = calls[c].request
           /\ calls[c].termOut # NoOutcome => calls[c].termOut.req = calls[c].request
           /\ calls[c].request.id = c

C17_Witness ==
    /\ Len(registered) = 2
    /\ Done(1) /\ calls[1].request.kind = "Command"
    /\ Len(calls[1].log) = 5
    /\ \A i \in 1..5 : calls[1].log[i].req = [kind |-> "Command", id |-> 1]
    /\ calls[1].outcome.req = [kind |-> "Command", id |-> 1]

\* invokeNext was entered once per behavior invoked and per terminal run
Entered(c) == Events(c, "before") \cup Events(c, "Terminal")

BoundedDescent(c) ==
    LET n == Len(handlers)
    IN  /\ Cardinality(Entered(c)) <= n + 1
        /\ Len(calls[c].stack) <= n + 1
        /\ \A j \in 1..n :
              Cardinality({i \in Events(c, "before") : calls[c].log[i].node = j}) <= 1
        /\ Cardinality(Events(c, "Terminal")) <= 1
        /\ \A i \in 1..Len(calls[c].stack) :
              calls[c].stack[i].node = IF i <= n THEN i ELSE null

\* C18: over a chain of n behaviors that each call next at most once and
\* go on in the end, the terminal settling in the end, one dispatch enters
\* invokeNext at most n+1 times, nests at most n behaviors and the terminal,
\* invokes each behavior at most once, and completes with an outcome.
C18_TerminationBoundedDescent ==
    /\ [](\A c \in CallIds : BoundedDescent(c))
    /\ \A c \in CallIds : Running(c) ~> (Done(c) /\ calls[c].outcome # NoOutcome)

C18_Witness ==
    /\ Len(handlers) = 3
    /\ Running(1)
    /\ Len(calls[1].stack) = 4
    /\ Cardinality(Entered(1)) = 4

\* C19: with no behavior registered, the Mediator with the pipeline (slot 1)
\* and the Mediator that calls the bus directly (slot 2), given the same
\* Command or Query, each make one bus call, on the same bus (CommandBus for a
\* Command, QueryBus for a Query) with the same request, and each returns
\* what its bus call gave: the same outcome when the bus answers the same.
C19_PlainMediatorEquivalence ==
    ( /\ handlers = <<>>
      /\ Started(1) /\ Started(2)
      /\ calls[1].request = calls[2].request
      /\ calls[1].request.kind \in {"Command", "Query"} )
    => /\ Shape(calls[1].log) = <<<<"Terminal", null, BusFor(calls[1].request)>>>>
       /\ Shape(calls[2].log) = Shape(calls[1].log)
       /\ calls[1].log[1].req = calls[1].request
       /\ calls[2].log[1].req = calls[1].log[1].req
       /\ \A c \in {1, 2} : Done(c) => calls[c].outcome = calls[c].termOut
       /\ (Done(1) /\ Done(2) /\ calls[1].termOut = calls[2].termOut)
          => calls[1].outcome = calls[2].outcome

C19_Witness ==
    /\ handlers = <<>>
    /\ Done(1) /\ Done(2)
    /\ calls[1].request = [kind |-> "Command", id |-> 1]
    /\ calls[2].request = calls[1].request
    /\ calls[1].outcome.ok /\ calls[1].outcome.by = "CommandBus"
    /\ calls[2].outcome = calls[1].outcome

\* whenever the terminal is run, every node the chain had by then was entered
\* before it: a node added before the tail called next runs before the terminal
RunsAddedBeforeTerminal(c) ==
    \A i \in Events(c, "Terminal") : \A t \in 1..calls[c].log[i].chain :
        \E j \in 1..(i - 1) : calls[c].log[j].ev = "before" /\ calls[c].log[j].node = t

\* a dispatch that started on an empty chain runs no behavior
EmptyStartRunsNone(c) ==
    (Started(c) /\ calls[c].log[1].ev = "Terminal") => Events(c, "before") = {}

\* once the tail has called next (the terminal was run), no node added
\* later is run
NeverRunsAddedLater(c) ==
    \A i \in Events(c, "Terminal") : \A j \in Events(c, "before") :
        j > i => calls[c].log[j].node <= calls[c].log[i].chain

\* no invocation of a behavior called next a second time
NoSecondNext(c) ==
    \A t \in 1..Len(handlers) :
        calls[c].nexts[t] <= Cardinality({i \in Events(c, "before") : calls[c].log[i].node = t})

\* C20 (as stated): the successor is read when the continuation is called;
\* a node added before the tail called next runs before the terminal, and a
\* dispatch that started on an empty chain, or whose tail has already called
\* next, never runs a node added later.
C20_LazySuccessor ==
    \A c \in CallIds :
        /\ RunsAddedBeforeTerminal(c)
        /\ EmptyStartRunsNone(c)
        /\ NeverRunsAddedLater(c)

\* C20 (amended): as stated, except that a dispatch whose tail has already
\* called next never runs a node added later provided no behavior calls next
\* a second time; a second call reads the link again and runs the new node.
C20_LazySuccessorUnlessReentered ==
    \A c \in CallIds :
        /\ RunsAddedBeforeTerminal(c)
        /\ EmptyStartRunsNone(c)
        /\ NoSecondNext(c) => NeverRunsAddedLater(c)

C20_Witness ==
    /\ Done(1) /\ calls[1].raced /\ NoSecondNext(1)
    /\ calls[1].log[1].chain = 1
    /\ Shape(calls[1].log) =
          <<<<"before", 1, registered[1]>>, <<"before", 2, registered[2]>>,
            <<"Terminal", null, BusFor(calls[1].request)>>,
            <<"after", 2, registered[2]>>, <<"after", 1, registered[1]>>>>
    /\ calls[1].log[3].chain = 2
    /\ Len(handlers) = 3

====
